---- MODULE Spec2Model ----
(***************************************************************************)
(* Model of jwp/jwmultithreaded.py: the four dispatch functions            *)
(* (multithread, safe_multithread, multithread_failsafe,                   *)
(* safe_multithread_failsafe), their deprecated instance-method twins in   *)
(* class jwmultithreaded, and the part of multiprocessing.pool they drive  *)
(* (Pool / ThreadPool construction, starmap, starmap_async, apply_async,   *)
(* the workers, and the terminate() that the with statement runs on exit). *)
(*                                                                         *)
(* A work item is an argument list of one element [x]; it is represented   *)
(* by x.  Python's None is represented by NoneVal where an integer is      *)
(* expected and by 0 where a positive option is expected.                  *)
(***************************************************************************)
EXTENDS Integers, Sequences, FiniteSets, TLC

\* ---- bounds of the explored inputs -------------------------------------
MaxLen == 3
MaxProcs == 2
MaxChunk == 2
MaxTasks == 2
PairMaxLen == 2

\* ---- defaults of the signatures ----------------------------------------
DefaultMaxtasksperchild == 1
DefaultChunksize == 1

Calls == {1, 2}
NoneVal == 0 - 1
NotPassed == "n/a"

Apis == {"multithread", "safe_multithread",
         "multithread_failsafe", "safe_multithread_failsafe"}
Surfaces == {"function", "method"}
PoolTypes == {"Pool", "ThreadPool"}
\* the item 0 on which fn raises, and two items on which it returns different
\* values
Items == {0, 1, 2}
\* an item on which fn never returns
HangingItems == {3}
ProcChoices == (0 - 1)..MaxProcs

Min(a, b) == IF a < b THEN a ELSE b

\* the sequences over S of length at most n
SeqsUpTo(S, n) == UNION {[1..m -> S] : m \in 0..n}

\* ---- the caller's function ---------------------------------------------
\* fn raises on the item 0 (ZeroDivisionError, as reciprocal does) and
\* returns a value that differs from its argument otherwise; on an item of
\* HangingItems it never returns
fn(x) == [ok |-> x # 0, val |-> IF x = 0 THEN 0 ELSE 12 \div x,
          hangs |-> x \in HangingItems]

FailFastApis == {"multithread", "safe_multithread"}
FailsafeApis == {"multithread_failsafe", "safe_multithread_failsafe"}

\* ---- signatures: which options a caller can pass -----------------------
HasPoolType(api, surface) == api \in {"multithread", "multithread_failsafe"}

HasMaxtasksperchild(api, surface) ==
    \/ api = "multithread"
    \/ api = "multithread_failsafe" /\ surface = "method"

HasChunksize(api, surface) ==
    ~(api = "safe_multithread_failsafe" /\ surface = "method")

HasVerbose(api, surface) == api \in FailsafeApis

\* a call as the caller writes it; an option the signature lacks is absent
\* (pool_type) or sits at the default of the general function
WellFormed(k) ==
    /\ HasPoolType(k.api, k.surface) <=> k.pool_type # NotPassed
    /\ ~HasMaxtasksperchild(k.api, k.surface) => k.maxtasksperchild = DefaultMaxtasksperchild
    /\ ~HasChunksize(k.api, k.surface) => k.chunksize = DefaultChunksize
    /\ ~HasVerbose(k.api, k.surface) => k.verbose = TRUE

CallSpace(A) ==
    {k \in [api : Apis, surface : Surfaces, args : A,
            pool_type : PoolTypes \cup {NotPassed},
            processes : ProcChoices,
            maxtasksperchild : 1..MaxTasks,
            chunksize : 1..MaxChunk,
            verbose : BOOLEAN] : WellFormed(k)}

NoCall == [api |-> "none", surface |-> "none", args |-> <<>>,
           pool_type |-> NotPassed, processes |-> 0,
           maxtasksperchild |-> 0, chunksize |-> 0, verbose |-> FALSE]

\* variant: safe_multithread leaves pool_type at the default of multithread
safe_multithread_default_pool(k) ==
    [k EXCEPT !.api = "multithread", !.pool_type = "Pool",
              !.maxtasksperchild = DefaultMaxtasksperchild]

\* safe_multithread delegates to multithread with pool_type=ThreadPool,
\* forwarding args, processes and chunksize
safe_multithread(k) ==
    [k EXCEPT !.api = "multithread", !.pool_type = "ThreadPool",
              !.maxtasksperchild = DefaultMaxtasksperchild]

\* safe_multithread_failsafe delegates to multithread_failsafe with
\* pool_type=ThreadPool, forwarding args, processes and verbose only
safe_multithread_failsafe(k) ==
    [k EXCEPT !.api = "multithread_failsafe", !.pool_type = "ThreadPool",
              !.maxtasksperchild = DefaultMaxtasksperchild,
              !.chunksize = DefaultChunksize]

\* the call of the general function that does the work
Frame(k) ==
    CASE k.api = "safe_multithread" -> safe_multithread(k)
      [] k.api = "safe_multithread_failsafe" -> safe_multithread_failsafe(k)
      [] OTHER -> k

VARIABLES
    call,       \* call[c]: the dispatch call c as the caller wrote it
    pc,         \* pc[c]: where the calling thread of call c is
    pool,       \* pool[c]: the pool constructed by call c
    idle,       \* idle[c]: live workers of pool[c] waiting on the inqueue
    running,    \* running[c]: the tasks the busy workers of pool[c] execute
    inqueue,    \* inqueue[c]: tasks submitted to pool[c] and not yet taken
    mapres,     \* mapres[c]: the MapResult of starmap / starmap_async
    handles,    \* handles[c]: result_objs, the ApplyResults of apply_async
    results,    \* results[c]: the local list of the failsafe helper
    ret,        \* ret[c]: what the call returned or raised
    log,        \* log[c]: what the call printed
    collected,  \* collected[c]: how many handles the failsafe loop has observed
    invoked,    \* invoked[c][i]: how many times fn was invoked on item i
    reordered   \* reordered[c]: a task completed before one submitted earlier

vars == <<call, pc, pool, idle, running, inqueue, mapres, handles, results,
          collected, ret, log, invoked, reordered>>


\* ---- values -------------------------------------------------------------
NoPool == [state |-> "none", kind |-> NotPassed, size |-> 0, maxtasksperchild |-> 0]
NoMapResult == [active |-> FALSE, chunksize |-> 0, value |-> <<>>, number_left |-> 0,
                success |-> TRUE, error |-> 0, ready |-> FALSE]
NoRet == [kind |-> "none", value |-> <<>>, exc |-> "", item |-> 0]
Returns(v) == [kind |-> "return", value |-> v, exc |-> "", item |-> 0]
Raises(e, i) == [kind |-> "raise", value |-> <<>>, exc |-> e, item |-> i]

\* ---- multiprocessing.pool as the dispatch functions use it --------------
\* type(pool_type): pool_type is a class (Pool or ThreadPool), and the type of
\* a class is the metaclass `type`
TypeOf(pool_type) == "type"

\* the test `type(pool_type) is Pool` that selects the constructor call
TypeIsPool(pool_type) == TypeOf(pool_type) = "Pool"

\* the branches whose constructor call passes maxtasksperchild: the free
\* multithread and both general methods; the free multithread_failsafe calls
\* pool_type(processes) in both branches
BranchPassesMaxtasks(f) ==
    \/ f.api = "multithread"
    \/ f.api = "multithread_failsafe" /\ f.surface = "method"

\* variant: a constructor that does not reject processes < 1
PoolInitUnchecked(pool_type, processes, mtpc) ==
    [ok |-> TRUE,
     pool |-> [state |-> "RUN", kind |-> pool_type,
               size |-> IF processes < 1 THEN 0 ELSE processes,
               maxtasksperchild |-> mtpc]]

\* pool_type(processes[, maxtasksperchild=...]): Pool.__init__ raises
\* ValueError when processes < 1, before it starts any worker; mtpc = 0 stands
\* for a constructor call without maxtasksperchild
PoolInit(pool_type, processes, mtpc) ==
    IF processes < 1
    THEN [ok |-> FALSE, pool |-> NoPool]
    ELSE [ok |-> TRUE,
          pool |-> [state |-> "RUN", kind |-> pool_type, size |-> processes,
                    maxtasksperchild |-> mtpc]]

\* the constructor call of the with statement
pool_type_call(f) ==
    IF TypeIsPool(f.pool_type) /\ BranchPassesMaxtasks(f)
    THEN PoolInit(f.pool_type, f.processes, f.maxtasksperchild)
    ELSE PoolInit(f.pool_type, f.processes, 0)

Range(lo, hi) == [j \in 1..(hi - lo + 1) |-> lo + j - 1]

\* MapResult.__init__: the number of chunks
NumChunks(n, cs) ==
    IF cs <= 0 THEN 0 ELSE (n \div cs) + (IF n % cs # 0 THEN 1 ELSE 0)

\* Pool._get_tasks: chunk i (from 0) holds the items i*cs+1 .. (i+1)*cs
GetTasks(n, cs) ==
    [j \in 1..NumChunks(n, cs) |->
        [job |-> "map", i |-> j - 1, idx |-> Range((j - 1) * cs + 1, Min(j * cs, n))]]

\* variant: the caller's chunksize is kept for an empty iterable
MapChunksizeKept(n, chunksize) == chunksize

\* Pool._map_async: an empty iterable forces chunksize 0, and MapResult is
\* then ready at once
MapChunksize(n, chunksize) == IF n = 0 THEN 0 ELSE chunksize

MapAsync(n, chunksize) ==
    LET cs == MapChunksize(n, chunksize) IN
    [active |-> TRUE, chunksize |-> cs, value |-> [j \in 1..n |-> NoneVal],
     number_left |-> NumChunks(n, cs), success |-> TRUE, error |-> 0,
     ready |-> (cs <= 0)]

\* python's v[lo:hi] = r (lo, hi count from 0, hi is clipped to len(v))
SliceAssign(v, lo, hi, r) ==
    SubSeq(v, 1, Min(lo, Len(v))) \o r \o SubSeq(v, Min(hi, Len(v)) + 1, Len(v))

\* starmapstar over one chunk: fn(*item) for the items in order, stopping at
\* the first item that raises
FirstFail(args, idx) ==
    LET bad == {j \in 1..Len(idx) : ~fn(args[idx[j]]).ok}
    IN IF bad = {} THEN 0 ELSE CHOOSE j \in bad : \A k \in bad : j <= k

RunChunk(args, idx) ==
    LET f == FirstFail(args, idx) IN
    [success |-> f = 0,
     value |-> IF f = 0 THEN [j \in 1..Len(idx) |-> fn(args[idx[j]]).val] ELSE <<>>,
     error |-> IF f = 0 THEN 0 ELSE idx[f],
     ran |-> IF f = 0 THEN Len(idx) ELSE f]

\* variant: a successful chunk is stored behind the chunks that completed
\* before it
MapSetCompletionOrder(mr, i, out) ==
    LET left == mr.number_left - 1
        filled == Len(SelectSeq(mr.value, LAMBDA v : v # NoneVal))
    IN IF out.success /\ mr.success
       THEN [mr EXCEPT !.number_left = left,
                       !.value = SliceAssign(mr.value, filled,
                                             filled + Len(out.value), out.value),
                       !.ready = (left = 0)]
       ELSE [mr EXCEPT !.number_left = left,
                       !.success = FALSE,
                       !.value = IF mr.success THEN <<>> ELSE mr.value,
                       !.error = IF mr.success THEN out.error ELSE mr.error,
                       !.ready = (left = 0)]

\* variant: the result is ready as soon as one chunk has failed
MapSetFailFast(mr, i, out) ==
    LET left == mr.number_left - 1 IN
    IF out.success /\ mr.success
    THEN [mr EXCEPT !.number_left = left,
                    !.value = SliceAssign(mr.value, i * mr.chunksize,
                                          (i + 1) * mr.chunksize, out.value),
                    !.ready = (left = 0)]
    ELSE [mr EXCEPT !.number_left = left,
                    !.success = FALSE,
                    !.value = IF mr.success THEN <<>> ELSE mr.value,
                    !.error = IF mr.success THEN out.error ELSE mr.error,
                    !.ready = TRUE]

\* MapResult._set(i, (success, result)): a successful chunk is stored at its
\* own position, only the first exception is kept, and the result is ready
\* once all chunks are done
MapSet(mr, i, out) ==
    LET left == mr.number_left - 1 IN
    IF out.success /\ mr.success
    THEN [mr EXCEPT !.number_left = left,
                    !.value = SliceAssign(mr.value, i * mr.chunksize,
                                          (i + 1) * mr.chunksize, out.value),
                    !.ready = (left = 0)]
    ELSE [mr EXCEPT !.number_left = left,
                    !.success = FALSE,
                    !.value = IF mr.success THEN <<>> ELSE mr.value,
                    !.error = IF mr.success THEN out.error ELSE mr.error,
                    !.ready = (left = 0)]

\* variant: get() hands out whatever was stored, also after a failure
MapGetPartial(mr) == Returns(mr.value)

\* pool.starmap(...) returning: MapResult.get() once the result is ready
MapGet(mr) ==
    IF mr.success THEN Returns(mr.value) ELSE Raises("ZeroDivisionError", mr.error)

\* pool.apply_async(fn, arg): the handle and the task of item i
PendingApply == [ready |-> FALSE, success |-> FALSE, value |-> NoneVal, error |-> 0]
ApplyTask(i) == [job |-> "apply", i |-> i, idx |-> <<i>>]

\* ApplyResult._set
ApplySet(out) ==
    [ready |-> TRUE, success |-> out.success,
     value |-> IF out.success THEN out.value[1] ELSE NoneVal,
     error |-> out.error]

\* Pool.__exit__ -> terminate(): the tasks not yet taken are dropped; the
\* workers of a process pool are terminated and joined; the workers of a
\* thread pool are only sent a sentinel and are not joined
TerminatedPool(p) == [p EXCEPT !.state = "TERMINATE"]
IdleAfterTerminate(p, n) == IF p.kind = "Pool" THEN 0 ELSE n
RunningAfterTerminate(p, r) == IF p.kind = "Pool" THEN {} ELSE r

\* ---- the body of the failsafe collection loop ---------------------------
\* try: results.append(r.get())  except: if verbose: print(...)
TracebackBlock(i) ==
    << [text |-> "######BEGIN TRACEBACK######", item |-> i],
       [text |-> "traceback", item |-> i],
       [text |-> "######END TRACEBACK######", item |-> i],
       [text |-> "", item |-> i] >>

\* variant: no except clause, the error of r.get() leaves the loop
for_r_reraise(res, lg, r, i, verbose) ==
    IF r.success
    THEN [raised |-> FALSE, results |-> Append(res, r.value), log |-> lg]
    ELSE [raised |-> TRUE, results |-> res, log |-> lg]

\* variant: the except clause appends None for the failed item
for_r_placeholder(res, lg, r, i, verbose) ==
    IF r.success
    THEN [raised |-> FALSE, results |-> Append(res, r.value), log |-> lg]
    ELSE [raised |-> FALSE, results |-> Append(res, NoneVal),
          log |-> IF verbose THEN lg \o TracebackBlock(i) ELSE lg]

\* variant: results.insert(0, r.get()) instead of results.append(r.get())
for_r_insert_front(res, lg, r, i, verbose) ==
    IF r.success
    THEN [raised |-> FALSE, results |-> <<r.value>> \o res, log |-> lg]
    ELSE [raised |-> FALSE, results |-> res,
          log |-> IF verbose THEN lg \o TracebackBlock(i) ELSE lg]

\* variant: the traceback block is printed without looking at verbose
for_r_always_print(res, lg, r, i, verbose) ==
    IF r.success
    THEN [raised |-> FALSE, results |-> Append(res, r.value), log |-> lg]
    ELSE [raised |-> FALSE, results |-> res, log |-> lg \o TracebackBlock(i)]

\* the loop body on the handle r of item i: append on success, print the
\* block under `if verbose` on failure, never raise
for_r(res, lg, r, i, verbose) ==
    IF r.success
    THEN [raised |-> FALSE, results |-> Append(res, r.value), log |-> lg]
    ELSE [raised |-> FALSE, results |-> res,
          log |-> IF verbose THEN lg \o TracebackBlock(i) ELSE lg]

\* starmapstar over one chunk never returns when fn hangs on an item that no
\* raising item precedes
ChunkHangs(args, idx) ==
    \E j \in 1..Len(idx) :
        /\ fn(args[idx[j]]).hangs
        /\ \A k \in 1..(j - 1) : fn(args[idx[k]]).ok

\* ---- the state machine --------------------------------------------------
Upd(f, c, v) == [f EXCEPT ![c] = v]

\* variant: the pool is a module-level object that every call uses
PoolShared(c) == 1

\* the pool that `with pool_type(...) as pool` binds in call c: the object
\* the constructor call of c has just made, which no other call holds
PoolOf(c) == c

\* a task on the inqueue of a pool, with the call that submitted it
Owned(t, c) == [job |-> t.job, i |-> t.i, idx |-> t.idx, owner |-> c]
OwnedTasks(ts, c) == [j \in 1..Len(ts) |-> Owned(ts[j], c)]

Final == {"Returned", "Raised"}

InitWith(K) ==
    \E k \in K :
        /\ call = [c \in Calls |-> IF c = 1 THEN k ELSE NoCall]
        /\ pc = [c \in Calls |-> IF c = 1 THEN "Idle" ELSE "NotCalled"]
        /\ pool = [c \in Calls |-> NoPool]
        /\ idle = [c \in Calls |-> 0]
        /\ running = [c \in Calls |-> {}]
        /\ inqueue = [c \in Calls |-> <<>>]
        /\ mapres = [c \in Calls |-> NoMapResult]
        /\ handles = [c \in Calls |-> <<>>]
        /\ results = [c \in Calls |-> <<>>]
        /\ collected = [c \in Calls |-> 0]
        /\ ret = [c \in Calls |-> NoRet]
        /\ log = [c \in Calls |-> <<>>]
        /\ invoked = [c \in Calls |-> IF c = 1 THEN [i \in 1..Len(k.args) |-> 0] ELSE <<>>]
        /\ reordered = [c \in Calls |-> FALSE]

Init == InitWith(CallSpace(SeqsUpTo(Items, MaxLen)))

\* leaving the with block: pool.__exit__ runs terminate()
PoolExit(c) ==
    LET p == PoolOf(c) IN
    /\ pool' = Upd(pool, p, TerminatedPool(pool[p]))
    /\ idle' = Upd(idle, p, IdleAfterTerminate(pool[p], idle[p]))
    /\ running' = Upd(running, p, RunningAfterTerminate(pool[p], running[p]))
    /\ inqueue' = Upd(inqueue, p, <<>>)

\* `with pool_type(processes, ...) as pool:` of the general function
with_enter(c) ==
    /\ pc[c] = "Idle"
    /\ LET r == pool_type_call(Frame(call[c])) IN
       IF r.ok
       THEN /\ pool' = Upd(pool, PoolOf(c), r.pool)
            /\ idle' = Upd(idle, PoolOf(c), r.pool.size)
            /\ pc' = Upd(pc, c, "PoolConstructed")
            /\ ret' = ret
       ELSE /\ pc' = Upd(pc, c, "Raised")
            /\ ret' = Upd(ret, c, Raises("ValueError", 0))
            /\ UNCHANGED <<pool, idle>>
    /\ UNCHANGED <<call, running, inqueue, mapres, handles, results, collected,
                   log, invoked, reordered>>

\* the helpers that hand the whole of args to the pool in one call:
\* pool.starmap in multithread, pool.starmap_async in the method
\* multithread_failsafe
UsesMap(f) ==
    \/ f.api = "multithread"
    \/ f.api = "multithread_failsafe" /\ f.surface = "method"

helper_starmap(c) ==
    LET f == Frame(call[c])
        n == Len(f.args)
    IN /\ pc[c] = "PoolConstructed"
       /\ UsesMap(f)
       /\ mapres' = Upd(mapres, c, MapAsync(n, f.chunksize))
       /\ inqueue' = Upd(inqueue, PoolOf(c), inqueue[PoolOf(c)] \o
                OwnedTasks(GetTasks(n, MapChunksize(n, f.chunksize)), c))
       /\ pc' = Upd(pc, c, "Dispatched")
       /\ UNCHANGED <<call, pool, idle, running, handles, results, collected,
                      ret, log, invoked, reordered>>

\* variant: the wait has a timeout, and the call raises when it expires
multithread_return_timeout(c) ==
    LET f == Frame(call[c])
        r == IF mapres[c].ready THEN MapGet(mapres[c]) ELSE Raises("TimeoutError", 0)
    IN /\ pc[c] = "Dispatched"
       /\ f.api = "multithread"
       /\ ret' = Upd(ret, c, r)
       /\ pc' = Upd(pc, c, IF r.kind = "return" THEN "Returned" ELSE "Raised")
       /\ PoolExit(c)
       /\ UNCHANGED <<call, mapres, handles, results, collected, log, invoked,
                      reordered>>

\* multithread: starmap returns or raises, the with block is left, and the
\* function returns results
multithread_return(c) ==
    LET f == Frame(call[c])
        r == MapGet(mapres[c])
    IN /\ pc[c] = "Dispatched"
       /\ f.api = "multithread"
       /\ mapres[c].ready
       /\ ret' = Upd(ret, c, r)
       /\ pc' = Upd(pc, c, IF r.kind = "return" THEN "Returned" ELSE "Raised")
       /\ PoolExit(c)
       /\ UNCHANGED <<call, mapres, handles, results, collected, log, invoked,
                      reordered>>

\* method multithread_failsafe: `for r in pool.starmap_async(...)` iterates
\* a MapResult, which is not iterable: TypeError leaves the with block
method_for_r(c) ==
    LET f == Frame(call[c])
    IN /\ pc[c] = "Dispatched"
       /\ f.api = "multithread_failsafe"
       /\ f.surface = "method"
       /\ ret' = Upd(ret, c, Raises("TypeError", 0))
       /\ pc' = Upd(pc, c, "Raised")
       /\ PoolExit(c)
       /\ UNCHANGED <<call, mapres, handles, results, collected, log, invoked,
                      reordered>>

UsesApply(f) == f.api = "multithread_failsafe" /\ f.surface = "function"

\* multithread_failsafe: one pool.apply_async(fn, arg) of the list
\* comprehension
helper_apply_async(c) ==
    LET f == Frame(call[c])
        i == Len(handles[c]) + 1
    IN /\ pc[c] = "PoolConstructed"
       /\ UsesApply(f)
       /\ i <= Len(f.args)
       /\ handles' = Upd(handles, c, Append(handles[c], PendingApply))
       /\ inqueue' = Upd(inqueue, PoolOf(c),
                Append(inqueue[PoolOf(c)], Owned(ApplyTask(i), c)))
       /\ UNCHANGED <<call, pc, pool, idle, running, mapres, results, collected,
                      ret, log, invoked, reordered>>

\* variant: result_objs is a generator, the loop starts as soon as the first
\* handle exists
helper_result_objs_lazy(c) ==
    LET f == Frame(call[c])
    IN /\ pc[c] = "PoolConstructed"
       /\ UsesApply(f)
       /\ Len(handles[c]) >= Min(1, Len(f.args))
       /\ pc' = Upd(pc, c, "AllSubmitted")
       /\ UNCHANGED <<call, pool, idle, running, inqueue, mapres, handles,
                      results, collected, ret, log, invoked, reordered>>

\* result_objs is complete
helper_result_objs(c) ==
    LET f == Frame(call[c])
    IN /\ pc[c] = "PoolConstructed"
       /\ UsesApply(f)
       /\ Len(handles[c]) = Len(f.args)
       /\ pc' = Upd(pc, c, "AllSubmitted")
       /\ UNCHANGED <<call, pool, idle, running, inqueue, mapres, handles,
                      results, collected, ret, log, invoked, reordered>>

\* variant: the loop takes the next handle that is ready and skips the
\* handles before it that are not
helper_for_r_skip(c) ==
    LET f == Frame(call[c])
        rdy == {j \in (collected[c] + 1)..Len(handles[c]) : handles[c][j].ready}
        i == CHOOSE j \in rdy : \A k \in rdy : j <= k
    IN /\ pc[c] \in {"AllSubmitted", "Collecting"}
       /\ rdy # {}
       /\ LET o == for_r(results[c], log[c], handles[c][i], i, f.verbose) IN
          /\ results' = Upd(results, c, o.results)
          /\ log' = Upd(log, c, o.log)
          /\ collected' = Upd(collected, c, i)
          /\ pc' = Upd(pc, c, "Collecting")
          /\ UNCHANGED <<ret, pool, idle, running, inqueue>>
       /\ UNCHANGED <<call, mapres, handles, invoked, reordered>>

\* one iteration of `for r in result_objs`: r.get() blocks until r is ready
helper_for_r(c) ==
    LET f == Frame(call[c])
        i == collected[c] + 1
    IN /\ pc[c] \in {"AllSubmitted", "Collecting"}
       /\ i <= Len(handles[c])
       /\ handles[c][i].ready
       /\ LET o == for_r(results[c], log[c], handles[c][i], i, f.verbose) IN
          /\ results' = Upd(results, c, o.results)
          /\ log' = Upd(log, c, o.log)
          /\ collected' = Upd(collected, c, i)
          /\ IF o.raised
             THEN /\ pc' = Upd(pc, c, "Raised")
                  /\ ret' = Upd(ret, c, Raises("ZeroDivisionError", handles[c][i].error))
                  /\ PoolExit(c)
             ELSE /\ pc' = Upd(pc, c, "Collecting")
                  /\ UNCHANGED <<ret, pool, idle, running, inqueue>>
       /\ UNCHANGED <<call, mapres, handles, invoked, reordered>>

\* variant: the loop is left at the first handle whose get() raises
multithread_failsafe_return_on_failure(c) ==
    /\ pc[c] \in {"AllSubmitted", "Collecting"}
    /\ \/ collected[c] = Len(handles[c])
       \/ collected[c] >= 1 /\ ~handles[c][collected[c]].success
    /\ ret' = Upd(ret, c, Returns(results[c]))
    /\ pc' = Upd(pc, c, "Returned")
    /\ PoolExit(c)
    /\ UNCHANGED <<call, mapres, handles, results, collected, log, invoked,
                   reordered>>

\* the loop is over: helper returns results, the with block is left, and
\* multithread_failsafe returns results
multithread_failsafe_return(c) ==
    /\ pc[c] \in {"AllSubmitted", "Collecting"}
    /\ collected[c] = Len(handles[c])
    /\ ret' = Upd(ret, c, Returns(results[c]))
    /\ pc' = Upd(pc, c, "Returned")
    /\ PoolExit(c)
    /\ UNCHANGED <<call, mapres, handles, results, collected, log, invoked,
                   reordered>>

\* ---- the workers of the pool --------------------------------------------
\* variant: a task is started as soon as it is queued, on a thread of its own
worker_take_unbounded(p) ==
    /\ pool[p].state = "RUN"
    /\ inqueue[p] # <<>>
    /\ idle' = Upd(idle, p, IF idle[p] > 0 THEN idle[p] - 1 ELSE 0)
    /\ running' = Upd(running, p, running[p] \cup {Head(inqueue[p])})
    /\ inqueue' = Upd(inqueue, p, Tail(inqueue[p]))
    /\ UNCHANGED <<call, pc, pool, mapres, handles, results, collected, ret,
                   log, invoked, reordered>>

\* an idle worker of pool p takes the oldest task of the inqueue of p
worker_take(p) ==
    /\ pool[p].state = "RUN"
    /\ idle[p] > 0
    /\ inqueue[p] # <<>>
    /\ idle' = Upd(idle, p, idle[p] - 1)
    /\ running' = Upd(running, p, running[p] \cup {Head(inqueue[p])})
    /\ inqueue' = Upd(inqueue, p, Tail(inqueue[p]))
    /\ UNCHANGED <<call, pc, pool, mapres, handles, results, collected, ret,
                   log, invoked, reordered>>

\* a task submitted before t that has not completed yet
Overtaken(p, t) ==
    \/ \E u \in running[p] : u.i < t.i
    \/ \E j \in 1..Len(inqueue[p]) : inqueue[p][j].i < t.i

\* a busy worker of pool p finishes its task, unless fn hangs in it: fn has
\* run on the items of the chunk, and the outcome reaches the MapResult or
\* ApplyResult of the task; the outcome of a task that finishes on a thread of
\* a terminated pool is read by nobody
worker_finish(p, t) ==
    LET c == t.owner
        out == RunChunk(call[c].args, t.idx)
        ran == {t.idx[j] : j \in 1..out.ran}
    IN /\ t \in running[p]
       /\ ~ChunkHangs(call[c].args, t.idx)
       /\ running' = Upd(running, p, running[p] \ {t})
       /\ idle' = Upd(idle, p, idle[p] + 1)
       /\ invoked' = Upd(invoked, c,
              [i \in DOMAIN invoked[c] |->
                  IF i \in ran THEN invoked[c][i] + 1 ELSE invoked[c][i]])
       /\ IF pool[p].state = "RUN"
          THEN /\ reordered' = Upd(reordered, c, reordered[c] \/ Overtaken(p, t))
               /\ IF t.job = "map"
                  THEN /\ mapres' = Upd(mapres, c, MapSet(mapres[c], t.i, out))
                       /\ handles' = handles
                  ELSE /\ handles' = Upd(handles, c,
                              [handles[c] EXCEPT ![t.i] = ApplySet(out)])
                       /\ mapres' = mapres
          ELSE UNCHANGED <<mapres, handles, reordered>>
       /\ UNCHANGED <<call, pc, pool, inqueue, results, collected, ret, log>>

\* a worker thread of a terminated ThreadPool reads its sentinel and ends
worker_exit(p) ==
    /\ pool[p].state = "TERMINATE"
    /\ idle[p] > 0
    /\ idle' = Upd(idle, p, idle[p] - 1)
    /\ UNCHANGED <<call, pc, pool, running, inqueue, mapres, handles, results,
                   collected, ret, log, invoked, reordered>>

Step(c) ==
    \/ with_enter(c)
    \/ helper_starmap(c)
    \/ multithread_return(c)
    \/ method_for_r(c)
    \/ helper_apply_async(c)
    \/ helper_result_objs(c)
    \/ helper_for_r(c)
    \/ multithread_failsafe_return(c)
    \/ worker_take(c)
    \/ \E t \in running[c] : worker_finish(c, t)
    \/ worker_exit(c)

Next == \E c \in Calls : Step(c)

Spec == Init /\ [][Next]_vars


\* ---- a caller that dispatches the same work a second time ---------------
\* two calls with the same args and the same value for every option that
\* both signatures have
SameOptions(k, k2) ==
    /\ k2.args = k.args
    /\ k2.processes = k.processes
    /\ (HasPoolType(k.api, k.surface) /\ HasPoolType(k2.api, k2.surface)) =>
            k2.pool_type = k.pool_type
    /\ (HasMaxtasksperchild(k.api, k.surface) /\ HasMaxtasksperchild(k2.api, k2.surface)) =>
            k2.maxtasksperchild = k.maxtasksperchild
    /\ (HasChunksize(k.api, k.surface) /\ HasChunksize(k2.api, k2.surface)) =>
            k2.chunksize = k.chunksize
    /\ (HasVerbose(k.api, k.surface) /\ HasVerbose(k2.api, k2.surface)) =>
            k2.verbose = k.verbose

\* the method and the free function of the same name
SurfaceTwin(k, k2) ==
    /\ k.api = k2.api
    /\ k.surface # k2.surface
    /\ SameOptions(k, k2)

FailsafeOf(api) ==
    IF api = "multithread" THEN "multithread_failsafe" ELSE "safe_multithread_failsafe"

\* the fail-fast and the failsafe function of the same family
ModeTwin(k, k2) ==
    /\ k.surface = k2.surface
    /\ \/ k.api \in FailFastApis /\ k2.api = FailsafeOf(k.api)
       \/ k2.api \in FailFastApis /\ k.api = FailsafeOf(k2.api)
    /\ SameOptions(k, k2)

GeneralOf(api) ==
    IF api = "safe_multithread" THEN "multithread" ELSE "multithread_failsafe"

\* the thread-restricted function and the general one given ThreadPool
ThreadTwin(k, k2) ==
    /\ k.surface = k2.surface
    /\ \/ ~HasPoolType(k.api, k.surface) /\ k2.api = GeneralOf(k.api)
          /\ k2.pool_type = "ThreadPool"
       \/ ~HasPoolType(k2.api, k2.surface) /\ k.api = GeneralOf(k2.api)
          /\ k.pool_type = "ThreadPool"
    /\ SameOptions(k, k2)

\* the second call a caller makes to compare it with call k: the method of
\* the same name, the failsafe function of the same family, or the general
\* function given ThreadPool
Counterparts(k) ==
    {k2 \in CallSpace({k.args}) :
        \/ SurfaceTwin(k, k2)
        \/ ModeTwin(k, k2) /\ k.api \in FailFastApis
        \/ ThreadTwin(k, k2) /\ ~HasPoolType(k.api, k.surface)}

\* after call 1 has returned or raised and the threads of its pool have
\* ended, the caller, who keeps what call 1 returned or raised and nothing
\* else of it, makes call 2; the two pools share nothing
CallAgain ==
    /\ pc[1] \in Final
    /\ pc[2] = "NotCalled"
    /\ idle[1] = 0
    /\ running[1] = {}
    /\ \E k2 \in Counterparts(call[1]) :
        /\ call' = Upd(call, 2, k2)
        /\ invoked' = [c \in Calls |-> [i \in 1..Len(k2.args) |-> 0]]
    /\ pc' = Upd(pc, 2, "Idle")
    /\ pool' = Upd(pool, 1, NoPool)
    /\ mapres' = Upd(mapres, 1, NoMapResult)
    /\ handles' = Upd(handles, 1, <<>>)
    /\ results' = Upd(results, 1, <<>>)
    /\ collected' = Upd(collected, 1, 0)
    /\ reordered' = Upd(reordered, 1, FALSE)
    /\ UNCHANGED <<idle, running, inqueue, ret, log>>

\* call 1 of a comparison is a free function
InitPair ==
    InitWith({k \in CallSpace(SeqsUpTo(Items, PairMaxLen)) : k.surface = "function"})

NextPair == Next \/ CallAgain

SpecPair == InitPair /\ [][NextPair]_vars


\* the steps of the calling thread of call c
CallerStep(c) ==
    \/ with_enter(c)
    \/ helper_starmap(c)
    \/ multithread_return(c)
    \/ method_for_r(c)
    \/ helper_apply_async(c)
    \/ helper_result_objs(c)
    \/ helper_for_r(c)
    \/ multithread_failsafe_return(c)

\* ---- two calls made by two threads of the caller at the same time ---------
ConcMaxLen == 1

\* the calls of the concurrent scenario: one worker or as many as the items
\* can keep busy, the options that do not touch the pool at their defaults
ConcCalls ==
    {k \in CallSpace(SeqsUpTo(Items, ConcMaxLen)) :
        /\ k.processes \in {1, Min(ConcMaxLen, MaxProcs)}
        /\ k.maxtasksperchild = DefaultMaxtasksperchild
        /\ k.chunksize = DefaultChunksize
        /\ k.verbose}

\* two threads are each about to call the same dispatch function with the
\* same options, each on args of its own
InitConc ==
    \E k \in ConcCalls, a2 \in SeqsUpTo(Items, ConcMaxLen) :
        LET ks == [c \in Calls |-> IF c = 1 THEN k ELSE [k EXCEPT !.args = a2]] IN
        /\ call = ks
        /\ pc = [c \in Calls |-> "Idle"]
        /\ pool = [c \in Calls |-> NoPool]
        /\ idle = [c \in Calls |-> 0]
        /\ running = [c \in Calls |-> {}]
        /\ inqueue = [c \in Calls |-> <<>>]
        /\ mapres = [c \in Calls |-> NoMapResult]
        /\ handles = [c \in Calls |-> <<>>]
        /\ results = [c \in Calls |-> <<>>]
        /\ collected = [c \in Calls |-> 0]
        /\ ret = [c \in Calls |-> NoRet]
        /\ log = [c \in Calls |-> <<>>]
        /\ invoked = [c \in Calls |-> [i \in 1..Len(ks[c].args) |-> 0]]
        /\ reordered = [c \in Calls |-> FALSE]

SpecConc == InitConc /\ [][Next]_vars


\* ---- a call on args that may hold an item on which fn never returns -------
LiveMaxLen == 2

\* the threads of a pool: its workers
WorkerStep(p) ==
    \/ worker_take(p)
    \/ \E t \in running[p] : worker_finish(p, t)
    \/ worker_exit(p)

\* the options that have no part in waiting are at their defaults
LiveCalls ==
    {k \in CallSpace(SeqsUpTo(Items \cup HangingItems, LiveMaxLen)) :
        /\ k.maxtasksperchild = DefaultMaxtasksperchild
        /\ k.verbose}

InitLive == InitWith(LiveCalls)

\* the operating system schedules every thread that can run: the calling
\* thread and the workers of the pool
SpecLive ==
    /\ InitLive
    /\ [][Next]_vars
    /\ \A c \in Calls : WF_vars(CallerStep(c)) /\ WF_vars(WorkerStep(c))

 ----------------------------------------
Done(c) == pc[c] \in Final
IsFunction(c) == call[c].surface = "function"
FailFast(c) == call[c].api \in FailFastApis
Failsafe(c) == call[c].api \in FailsafeApis
ValidPool(c) == call[c].processes >= 1

NoFailure(a) == \A i \in 1..Len(a) : fn(a[i]).ok
AllFail(a) == \A i \in 1..Len(a) : ~fn(a[i]).ok
Succeeds(x) == fn(x).ok
NumFailed(a) == Cardinality({i \in 1..Len(a) : ~fn(a[i]).ok})

\* fn applied to every item, position by position
Mapped(a) == [i \in 1..Len(a) |-> fn(a[i]).val]

\* the outputs of the items on which fn succeeds, in input order
Successes(a) == Mapped(SelectSeq(a, Succeeds))

\* C1: a fail-fast dispatch with at least one worker on args that make fn
\* fail nowhere ends by returning a sequence as long as args whose i-th
\* element is fn of the i-th work item, whatever the completion order, the
\* worker count and the chunk size.
C1_PositionalResult ==
    \A c \in Calls :
        (FailFast(c) /\ ValidPool(c) /\ NoFailure(call[c].args) /\ Done(c)) =>
            /\ pc[c] = "Returned"
            /\ ret[c].kind = "return"
            /\ Len(ret[c].value) = Len(call[c].args)
            /\ \A i \in 1..Len(call[c].args) : ret[c].value[i] = fn(call[c].args[i]).val

\* a fail-fast call of three distinct items in chunks of two returned although
\* the second chunk completed before the first
C1_Witness ==
    \E c \in Calls :
        /\ FailFast(c) /\ pc[c] = "Returned"
        /\ call[c].chunksize = 2 /\ call[c].processes = 2
        /\ Len(call[c].args) = 3 /\ call[c].args[1] # call[c].args[3]
        /\ reordered[c]
        /\ ret[c].value = Mapped(call[c].args)

\* C2: a fail-fast dispatch with at least one worker on args that make fn fail
\* on some item ends by raising the error of a failing item, and no sequence,
\* not even a partial one, is returned.
C2_FailFastRaises ==
    \A c \in Calls :
        (FailFast(c) /\ ValidPool(c) /\ ~NoFailure(call[c].args) /\ Done(c)) =>
            /\ pc[c] = "Raised"
            /\ ret[c].kind = "raise"
            /\ ret[c].exc = "ZeroDivisionError"
            /\ ret[c].item \in 1..Len(call[c].args)
            /\ ~fn(call[c].args[ret[c].item]).ok
            /\ ret[c].value = <<>>

\* a fail-fast call raised although fn had run to success on another item
C2_Witness ==
    \E c \in Calls :
        /\ FailFast(c) /\ pc[c] = "Raised"
        /\ ret[c].exc = "ZeroDivisionError"
        /\ \E i \in DOMAIN invoked[c] : fn(call[c].args[i]).ok /\ invoked[c][i] = 1

\* C3: a failsafe dispatch with at least one worker never raises, whichever
\* items fail; until it has returned its calling thread or one of its workers
\* can take a step; and when fn fails on every item it returns the empty
\* sequence.
C3_FailsafeNeverRaises ==
    \A c \in Calls :
        (Failsafe(c) /\ IsFunction(c) /\ ValidPool(c)) =>
            /\ pc[c] # "Raised"
            /\ ret[c].kind # "raise"
            /\ ~Done(c) => ENABLED Step(c)
            /\ (Done(c) /\ AllFail(call[c].args)) => ret[c] = Returns(<<>>)

\* a failsafe call of at least two items, all failing, has returned
C3_Witness ==
    \E c \in Calls :
        /\ Failsafe(c) /\ IsFunction(c) /\ pc[c] = "Returned"
        /\ Len(call[c].args) >= 2 /\ AllFail(call[c].args)
        /\ \A i \in DOMAIN invoked[c] : invoked[c][i] = 1
        /\ ret[c].value = <<>>

\* C4: a failsafe dispatch returns exactly the outputs of the items on which
\* fn succeeded, in input order and without placeholders, so its length is
\* the input length minus the number of failed items, whatever the completion
\* order.
C4_FailsafeSubsequence ==
    \A c \in Calls :
        (Failsafe(c) /\ IsFunction(c) /\ pc[c] = "Returned") =>
            /\ ret[c].kind = "return"
            /\ ret[c].value = Successes(call[c].args)
            /\ Len(ret[c].value) = Len(call[c].args) - NumFailed(call[c].args)

\* a failsafe call of three items whose middle item fails returned the two
\* other outputs although a later item completed before an earlier one
C4_Witness ==
    \E c \in Calls :
        /\ Failsafe(c) /\ IsFunction(c) /\ pc[c] = "Returned"
        /\ Len(call[c].args) = 3
        /\ fn(call[c].args[1]).ok /\ ~fn(call[c].args[2]).ok /\ fn(call[c].args[3]).ok
        /\ call[c].args[1] # call[c].args[3]
        /\ reordered[c]
        /\ Len(ret[c].value) = 2


\* C5: when a fail-fast and a failsafe function are called, one after the
\* other, with the same non-empty args on which fn never fails and at least
\* one worker, both return the same sequence of outputs, which is fn of every
\* item in input order.
C5_SameOutputs ==
    (/\ Done(1) /\ Done(2)
     /\ IsFunction(1) /\ IsFunction(2)
     /\ FailFast(1) # FailFast(2)
     /\ call[1].args = call[2].args
     /\ Len(call[1].args) >= 1 /\ NoFailure(call[1].args)
     /\ ValidPool(1) /\ ValidPool(2)) =>
        /\ ret[1].kind = "return" /\ ret[2].kind = "return"
        /\ ret[1].value = ret[2].value
        /\ ret[1].value = Mapped(call[1].args)

\* multithread and then multithread_failsafe returned for the same two
\* distinct items
C5_Witness ==
    /\ pc[1] = "Returned" /\ pc[2] = "Returned"
    /\ IsFunction(1) /\ IsFunction(2)
    /\ call[1].api = "multithread" /\ call[2].api = "multithread_failsafe"
    /\ Len(call[1].args) = 2 /\ call[1].args[1] # call[1].args[2]
    /\ NoFailure(call[1].args)
    /\ call[2].args = call[1].args
    /\ reordered[2]

\* C6: in every dispatch function a worker count <= 0 makes the call raise
\* the configuration error (ValueError) to the caller, failsafe functions
\* included, with no pool, no worker, no submitted work and no invocation of
\* fn.
C6_ConfigError ==
    \A c \in Calls :
        (call[c].processes <= 0 /\ pc[c] \notin {"NotCalled", "Idle"}) =>
            /\ pc[c] = "Raised"
            /\ ret[c] = Raises("ValueError", 0)
            /\ pool[c] = NoPool
            /\ idle[c] = 0 /\ running[c] = {} /\ inqueue[c] = <<>>
            /\ handles[c] = <<>> /\ ~mapres[c].active
            /\ \A i \in DOMAIN invoked[c] : invoked[c][i] = 0

\* a failsafe function called with work to do and no worker has raised
C6_Witness ==
    \E c \in Calls :
        /\ Failsafe(c) /\ IsFunction(c)
        /\ call[c].processes <= 0 /\ Len(call[c].args) >= 1
        /\ pc[c] = "Raised" /\ ret[c].exc = "ValueError"

\* C7: after a dispatch function has returned or raised, its pool is torn
\* down and none of its workers is alive.
C7_PoolReleased ==
    \A c \in Calls :
        (Done(c) /\ IsFunction(c)) =>
            /\ pool[c].state \in {"none", "TERMINATE"}
            /\ idle[c] = 0
            /\ running[c] = {}

\* C8: a dispatch function called with an empty args and at least one worker
\* never hands a task to a worker, its calling thread can always take its
\* next step until the call is over, and the call ends by returning the empty
\* sequence.
C8_EmptyArgs ==
    \A c \in Calls :
        (IsFunction(c) /\ call[c].api \in Apis /\ call[c].args = <<>> /\ ValidPool(c)) =>
            /\ pc[c] # "Raised"
            /\ inqueue[c] = <<>> /\ running[c] = {}
            /\ ~Done(c) => ENABLED CallerStep(c)
            /\ Done(c) => ret[c] = Returns(<<>>)

\* multithread returned [] for args = [] after constructing and terminating a
\* pool
C8_Witness ==
    \E c \in Calls :
        /\ IsFunction(c) /\ FailFast(c)
        /\ call[c].args = <<>>
        /\ pc[c] = "Returned" /\ ret[c] = Returns(<<>>)
        /\ mapres[c].active /\ pool[c].state = "TERMINATE"

\* C9: the pool of a fail-fast dispatch is constructed with the caller's
\* maxtasksperchild when pool_type is the process pool and without it when
\* pool_type is the thread pool.
C9_MaxtasksForwarded ==
    \A c \in Calls :
        (FailFast(c) /\ pool[c].state # "none") =>
            IF pool[c].kind = "Pool"
            THEN pool[c].maxtasksperchild = Frame(call[c]).maxtasksperchild
            ELSE pool[c].maxtasksperchild = 0

\* C10: a method of class jwmultithreaded and the free function of the same
\* name, called with the same args and options, both return the same sequence
\* or both raise.
C10_MethodsLikeFunctions ==
    (Done(1) /\ Done(2) /\ SurfaceTwin(call[1], call[2])) =>
        /\ ret[1].kind = ret[2].kind
        /\ ret[1].value = ret[2].value


FailsafeFunction(c) == Failsafe(c) /\ IsFunction(c)

\* the tasks of call c that wait on the inqueue of its pool or are executed
\* by its workers
TasksOf(c) ==
    {t \in running[PoolOf(c)] : t.owner = c} \cup
    {inqueue[PoolOf(c)][j] : j \in {k \in 1..Len(inqueue[PoolOf(c)]) :
                                        inqueue[PoolOf(c)][k].owner = c}}

FailsafePhases ==
    { <<"Idle", "PoolConstructed">>, <<"PoolConstructed", "AllSubmitted">>,
      <<"AllSubmitted", "Collecting">>, <<"Collecting", "Returned">> }

\* C11: a failsafe function with at least one worker moves through Idle,
\* PoolConstructed, AllSubmitted, Collecting and Done (Returned) in this order
\* and stays in Done (with no work item the loop has no iteration and Done
\* follows AllSubmitted); every work item is handed to the pool as a task of
\* its own, whatever chunksize is, and all of them are handed over before the
\* first result is collected; the result does not depend on chunksize.
C11_FailsafePhases ==
    /\ [](\A c \in Calls : (FailsafeFunction(c) /\ ValidPool(c)) =>
            /\ \A t \in TasksOf(c) : t.job = "apply" /\ Len(t.idx) = 1
            /\ ~mapres[c].active
            /\ Len(handles[c]) <= Len(call[c].args)
            /\ (pc[c] \in {"AllSubmitted", "Collecting", "Returned"} \/ collected[c] > 0) =>
                    Len(handles[c]) = Len(call[c].args)
            /\ pc[c] = "Returned" => ret[c] = Returns(Successes(call[c].args)))
    /\ [][\A c \in Calls :
            (FailsafeFunction(c) /\ ValidPool(c) /\ pc'[c] # pc[c]) =>
                \/ <<pc[c], pc'[c]>> \in FailsafePhases
                \/ /\ <<pc[c], pc'[c]>> = <<"AllSubmitted", "Returned">>
                   /\ call[c].args = <<>>]_vars

\* a failsafe function called with chunksize 2 has submitted three items as
\* three tasks, collected the first result, and two tasks are still executed
C11_Witness ==
    \E c \in Calls :
        /\ FailsafeFunction(c) /\ pc[c] = "Collecting"
        /\ call[c].chunksize = 2
        /\ Len(call[c].args) = 3 /\ Len(handles[c]) = 3
        /\ collected[c] = 1
        /\ Cardinality(running[PoolOf(c)]) = 2

\* C12: the failsafe loop observes the handles in submission order and blocks
\* on each: what it has appended is the outputs of the successes among the
\* first collected[c] items, and while the next handle is not ready the
\* calling thread cannot take a step, also when a later handle is ready.
C12_InOrderCollection ==
    \A c \in Calls :
        FailsafeFunction(c) =>
            /\ collected[c] <= Len(handles[c])
            /\ \A j \in 1..collected[c] : handles[c][j].ready
            /\ results[c] = Successes(SubSeq(call[c].args, 1, collected[c]))
            /\ (/\ pc[c] \in {"AllSubmitted", "Collecting"}
                /\ collected[c] < Len(handles[c])
                /\ ~handles[c][collected[c] + 1].ready) => ~ENABLED CallerStep(c)

\* the loop waits for the second of three items although the third one has
\* completed
C12_Witness ==
    \E c \in Calls :
        /\ FailsafeFunction(c) /\ pc[c] = "Collecting"
        /\ Len(handles[c]) = 3 /\ collected[c] = 1
        /\ ~handles[c][2].ready /\ handles[c][3].ready
        /\ fn(call[c].args[2]).ok /\ fn(call[c].args[3]).ok


FailFastPhases ==
    { <<"Idle", "PoolConstructed">>, <<"PoolConstructed", "Dispatched">>,
      <<"Dispatched", "Returned">>, <<"Dispatched", "Raised">> }

\* C13 as stated: a fail-fast dispatch with at least one worker is in one of
\* Idle, PoolConstructed, Dispatched, AllSucceeded (Returned), Aborted
\* (Raised); once an invocation has raised, the caller does not wait for the
\* remaining work: its next step (re-raising) can be taken at once; and the
\* error raised to the caller is the one that was recorded first.
C13_ShortCircuit ==
    \A c \in Calls :
        (FailFast(c) /\ ValidPool(c)) =>
            /\ pc[c] \in {"Idle", "PoolConstructed", "Dispatched", "Returned", "Raised"}
            /\ (pc[c] = "Dispatched" /\ ~mapres[c].success) => ENABLED CallerStep(c)
            /\ pc[c] = "Raised" => ret[c] = Raises("ZeroDivisionError", mapres[c].error)

\* C13 amended: a fail-fast dispatch with at least one worker moves through
\* Idle, PoolConstructed, Dispatched and then AllSucceeded (Returned) or
\* Aborted (Raised), and stays there; while a chunk is still queued or being
\* executed the caller waits, also after an invocation has raised; the error
\* of the first chunk reported as failed is kept and is, unwrapped, the one
\* raised to the caller once every chunk has finished.
C13_FailFastPhases ==
    /\ [](\A c \in Calls : (FailFast(c) /\ ValidPool(c)) =>
            /\ mapres[c].active => (mapres[c].ready <=> mapres[c].number_left = 0)
            /\ (pc[c] = "Dispatched" /\ mapres[c].number_left > 0) =>
                    ~ENABLED CallerStep(c)
            /\ pc[c] \in Final =>
                    /\ mapres[c].number_left = 0
                    /\ \A i \in 1..Len(call[c].args) :
                            invoked[c][i] = 0 => \E j \in 1..(i - 1) : ~fn(call[c].args[j]).ok
            /\ pc[c] = "Returned" => mapres[c].success /\ ret[c].kind = "return"
            /\ pc[c] = "Raised" =>
                    /\ ~mapres[c].success
                    /\ ret[c] = Raises("ZeroDivisionError", mapres[c].error)
                    /\ mapres[c].error \in 1..Len(call[c].args)
                    /\ ~fn(call[c].args[mapres[c].error]).ok)
    /\ [][\A c \in Calls : (FailFast(c) /\ ValidPool(c)) =>
            /\ pc'[c] # pc[c] => <<pc[c], pc'[c]>> \in FailFastPhases
            /\ (mapres[c].active /\ ~mapres[c].success) =>
                    /\ ~mapres'[c].success
                    /\ mapres'[c].error = mapres[c].error]_vars

\* one chunk has failed, another is still being executed, and the caller
\* waits in starmap
C13_Witness ==
    \E c \in Calls :
        /\ FailFast(c) /\ pc[c] = "Dispatched"
        /\ ~mapres[c].success /\ ~mapres[c].ready
        /\ running[PoolOf(c)] # {}
        /\ ~ENABLED CallerStep(c)


ThreadRestricted(c) == call[c].api \in {"safe_multithread", "safe_multithread_failsafe"}

\* C14: a thread-restricted function never constructs anything but a
\* ThreadPool, whatever the caller passes; and it ends as the general function
\* of the same mode called with pool_type=ThreadPool and the same args and
\* options ends: both return the same list and print the same, or both raise
\* the same kind of error.
C14_ThreadRestricted ==
    /\ \A c \in Calls :
          (ThreadRestricted(c) /\ pool[c].state # "none") => pool[c].kind = "ThreadPool"
    /\ (Done(1) /\ Done(2) /\ ThreadTwin(call[1], call[2])) =>
          /\ ret[1].kind = ret[2].kind
          /\ ret[1].value = ret[2].value
          /\ ret[1].exc = ret[2].exc
          /\ log[1] = log[2]

\* safe_multithread_failsafe and multithread_failsafe with ThreadPool have
\* both returned on args with a failing and a succeeding item
C14_Witness ==
    /\ pc[1] = "Returned" /\ pc[2] = "Returned"
    /\ call[1].api = "safe_multithread_failsafe"
    /\ call[2].api = "multithread_failsafe" /\ call[2].pool_type = "ThreadPool"
    /\ ThreadTwin(call[1], call[2])
    /\ NumFailed(call[1].args) = 1 /\ Len(ret[2].value) = 1


\* the tasks that wait on the inqueue of pool p or are executed by its workers
TasksIn(p) == running[p] \cup {inqueue[p][j] : j \in 1..Len(inqueue[p])}

\* C15: every call constructs a pool of its own, from its own options; the
\* workers of that pool take and execute only tasks of that call, made of its
\* own work items, and what the call returns is computed from its own args;
\* the pool takes tasks only before the call collects, so it serves one
\* batch; when the call has returned or raised, its pool is terminated and its
\* queue is empty, so the pool serves no other call; and no step of a call
\* touches the pool, the queue or the workers of the other call.
C15_PoolPerCall ==
    /\ [](\A c \in Calls :
            /\ \A t \in TasksIn(c) :
                    /\ t.owner = c
                    /\ \A j \in 1..Len(t.idx) : t.idx[j] \in 1..Len(call[c].args)
            /\ pool[c].state # "none" =>
                    /\ pool[c].size = call[c].processes
                    /\ pool[c].kind = Frame(call[c]).pool_type
                    /\ idle[c] + Cardinality(running[c]) <= pool[c].size
            /\ pool[c].state = "none" => idle[c] = 0 /\ TasksIn(c) = {}
            /\ (Done(c) /\ ValidPool(c)) => pool[c].state = "TERMINATE" /\ inqueue[c] = <<>>
            /\ (pc[c] = "Returned" /\ FailFast(c)) => ret[c] = Returns(Mapped(call[c].args))
            /\ (pc[c] = "Returned" /\ Failsafe(c)) => ret[c] = Returns(Successes(call[c].args)))
    /\ [][\A c \in Calls :
            /\ Len(inqueue'[c]) > Len(inqueue[c]) => pc[c] = "PoolConstructed"
            /\ pool'[c] # pool[c] => pc[c] # pc'[c] /\ (pc[c] = "Idle" \/ pc'[c] \in Final)
            /\ pc'[c] # pc[c] =>
                  \A d \in Calls \ {c} :
                      /\ pool'[d] = pool[d] /\ idle'[d] = idle[d]
                      /\ running'[d] = running[d] /\ inqueue'[d] = inqueue[d]
                      /\ mapres'[d] = mapres[d] /\ handles'[d] = handles[d]]_vars

\* two calls are under way at the same time on different args, each with a
\* live pool of its own whose worker is executing a task of that call
C15_Witness ==
    /\ pool[1].state = "RUN" /\ pool[2].state = "RUN"
    /\ call[1].args # call[2].args
    /\ \E t \in running[1] : t.owner = 1
    /\ \E t \in running[2] : t.owner = 2


\* one block per failing item among the first n items of a, in input order
RECURSIVE FailureBlocks(_, _)
FailureBlocks(a, n) ==
    IF n = 0 THEN <<>>
    ELSE FailureBlocks(a, n - 1) \o (IF fn(a[n]).ok THEN <<>> ELSE TracebackBlock(n))

LinesWith(lg, text) == {j \in 1..Len(lg) : lg[j].text = text}

\* C16: a failsafe function called with verbose true has printed, for every
\* failing item the loop has observed and for nothing else, one block that
\* begins with the BEGIN TRACEBACK line and ends with the END TRACEBACK line,
\* the blocks in submission order of the items; called with verbose false it
\* prints nothing; and what it returns is the outputs of the succeeding items
\* whatever verbose is.
C16_FailsafeLogging ==
    \A c \in Calls :
        FailsafeFunction(c) =>
            /\ call[c].verbose => log[c] = FailureBlocks(call[c].args, collected[c])
            /\ ~call[c].verbose => log[c] = <<>>
            /\ pc[c] = "Returned" =>
                  /\ ret[c] = Returns(Successes(call[c].args))
                  /\ call[c].verbose =>
                        /\ Cardinality(LinesWith(log[c], "######BEGIN TRACEBACK######"))
                                = NumFailed(call[c].args)
                        /\ Cardinality(LinesWith(log[c], "######END TRACEBACK######"))
                                = NumFailed(call[c].args)

\* a verbose failsafe function has returned the output of the one succeeding
\* item and printed two blocks, for the first and the third item
C16_Witness ==
    \E c \in Calls :
        /\ FailsafeFunction(c) /\ pc[c] = "Returned" /\ call[c].verbose
        /\ Len(call[c].args) = 3
        /\ ~fn(call[c].args[1]).ok /\ fn(call[c].args[2]).ok /\ ~fn(call[c].args[3]).ok
        /\ Len(log[c]) = 8 /\ log[c][1].item = 1 /\ log[c][5].item = 3
        /\ Len(ret[c].value) = 1


\* an invocation of fn by call c that never finishes is in progress
Hung(c) ==
    \E t \in running[PoolOf(c)] : t.owner = c /\ ChunkHangs(call[c].args, t.idx)

\* C17: a dispatch call, of any of the four functions and with any options,
\* eventually returns or raises unless an invocation of fn that never
\* finishes is in progress; and once such an invocation is in progress it
\* stays in progress and the call, which has no timeout and cancels nothing,
\* neither returns nor raises.
C17_Termination ==
    /\ <>(Done(1) \/ Hung(1))
    /\ [](\A c \in Calls : (Hung(c) /\ (FailFast(c) \/ IsFunction(c))) => ~Done(c))
    /\ [][\A c \in Calls : (Hung(c) /\ (FailFast(c) \/ IsFunction(c))) => Hung(c)']_vars

\* a failsafe function has collected the result of the first item and waits
\* for the second, on which fn never returns; no thread can take a step
C17_Witness ==
    /\ FailsafeFunction(1) /\ Hung(1)
    /\ pc[1] = "Collecting" /\ collected[1] = 1
    /\ Len(call[1].args) = 2
    /\ ~ENABLED Next


\* C18: at every moment of a fail-fast or failsafe call the tasks being
\* executed, each of which runs one invocation of fn at a time, are at most
\* `processes` many, also in the failsafe mode, where all items are queued at
\* once; without a pool nothing is executed.
C18_BoundedParallelism ==
    \A c \in Calls :
        /\ Cardinality(running[PoolOf(c)]) <= pool[PoolOf(c)].size
        /\ pool[PoolOf(c)].state # "none" => pool[PoolOf(c)].size = call[c].processes
        /\ pool[PoolOf(c)].state = "none" => running[PoolOf(c)] = {}

\* a failsafe function with two workers has queued three items: two are
\* being executed and the third waits
C18_Witness ==
    \E c \in Calls :
        /\ FailsafeFunction(c) /\ call[c].processes = 2
        /\ Len(handles[c]) = 3
        /\ Cardinality(running[PoolOf(c)]) = 2
        /\ Len(inqueue[PoolOf(c)]) = 1

AllInvokedOnce(c) == \A i \in 1..Len(call[c].args) : invoked[c][i] = 1

\* C19: fn is never invoked twice on an item; when a failsafe function is
\* about to leave the with block, and when it has returned, fn has been
\* invoked exactly once on every item, the failing ones and those behind a
\* failing one included, and no task of the call is queued or being executed;
\* when a fail-fast call has returned a list, fn has been invoked exactly once
\* on every item.
C19_InvokedOnce ==
    \A c \in Calls :
        /\ \A i \in 1..Len(call[c].args) : invoked[c][i] <= 1
        /\ (FailsafeFunction(c) /\ (pc[c] = "Returned" \/ ENABLED multithread_failsafe_return(c))) =>
              /\ AllInvokedOnce(c)
              /\ TasksOf(c) = {}
        /\ (FailFast(c) /\ pc[c] = "Returned") => AllInvokedOnce(c)

\* a failsafe function has returned on three items, the first of which makes
\* fn raise, and fn was invoked once on each
C19_Witness ==
    \E c \in Calls :
        /\ FailsafeFunction(c) /\ pc[c] = "Returned"
        /\ Len(call[c].args) = 3 /\ ~fn(call[c].args[1]).ok
        /\ AllInvokedOnce(c)
        /\ Len(ret[c].value) = 2

====
